---- MODULE Spec2Model ----
(***************************************************************************)
(* A model of the 1brc-rust parse-and-aggregate pipeline: src/main.rs      *)
(* (parse_temp, parse, extract_fields, get_map, get_map_rayon, main) and   *)
(* the library variant src/parse.rs (parse with a 128-slot field buffer).  *)
(* Bytes are their ASCII codes; a slice of a buffer is the pair <<lo, hi>> *)
(* of offsets of the half-open range [lo, hi) it borrows.                  *)
(***************************************************************************)
EXTENDS Integers, Sequences, FiniteSets, TLC

VARIABLES
    mode,       \* which entry point runs: "get_map", "get_map_rayon", "parse_lib"
    data,       \* the input buffer (bytes)
    nthreads,   \* rayon::current_num_threads()
    pc,         \* position of the main thread
    pi,         \* partition loop index i
    start,      \* partition loop variable start
    blocks,     \* blocks[i+1]: the slice <<lo, hi>> of data given to worker i
    ps,         \* ps[i+1]: the state of worker i's call of parse
    parts,      \* the reduction of the workers' tables (adjacent groups)
    table,      \* the collected BTreeMap
    iter,       \* main's peekable iterator: the keys left, ascending
    out         \* the writes made to stdout, in order

vars == <<mode, data, nthreads, pc, pi, start, blocks, ps, parts, table, iter, out>>

----------------------------------------------------------------------------
(* Bounds of the model.                                                    *)

\* Records in the input of a single call of parse.
MaxRecs == 60
\* Records in the input of a partitioned run.
MaxParRecs == 5
\* Worker threads of a partitioned run.
MaxWorkers == 3

----------------------------------------------------------------------------
(* Bytes.                                                                  *)

NL    == 10
SEMI  == 59
MINUS == 45
ZERO  == 48

Digits == 48..57

Min2(a, b) == IF a <= b THEN a ELSE b
Max2(a, b) == IF a >= b THEN a ELSE b

\* The bytes of the slice sp of buffer d.
Bytes(d, sp) == SubSeq(d, sp[1] + 1, sp[2])

\* u8 and i16 arithmetic as a release build computes it.
WrapU8(x)  == x % 256
WrapI16(x) == ((x + 32768) % 65536) - 32768

----------------------------------------------------------------------------
(* parse_temp                                                              *)

BoolInt(b) == IF b THEN 1 ELSE 0

\* A faulty parse_temp: the two-digit multiplier is 110 instead of 100.
ParseTempBadMul(t) ==
    LET t_len  == Len(t)
        is_neg == t[1] = MINUS
        sign   == BoolInt(~is_neg) * 2 - 1
        skip   == BoolInt(is_neg)
        has_dd == (t_len - skip = 4)
        mul    == BoolInt(has_dd) * 100 + 10
        d1     == t[skip + 1] - ZERO
        d2     == t[t_len - 3 + 1] - ZERO
        d3     == t[t_len - 1 + 1] - ZERO
        t1     == mul * WrapU8(d1)
        t2     == BoolInt(has_dd) * 10 * WrapU8(d2)
        t3     == WrapU8(d3)
    IN  [sign |-> sign, mul |-> mul, d1 |-> d1, d2 |-> d2, d3 |-> d3,
         t1 |-> t1, t2 |-> t2, t3 |-> t3,
         acc |-> WrapI16(WrapI16(WrapI16(t1) + WrapI16(t2)) + t3)]

\* The values parse_temp computes on the span t, before any wrapping:
\* d1, d2, d3 are the three digit subtractions, t1, t2, t3 and the sum as in
\* the source.
ParseTempSteps(t) ==
    LET t_len  == Len(t)
        is_neg == t[1] = MINUS
        sign   == BoolInt(~is_neg) * 2 - 1
        skip   == BoolInt(is_neg)
        has_dd == (t_len - skip = 4)
        mul    == BoolInt(has_dd) * 90 + 10
        d1     == t[skip + 1] - ZERO
        d2     == t[t_len - 3 + 1] - ZERO
        d3     == t[t_len - 1 + 1] - ZERO
        t1     == mul * WrapU8(d1)
        t2     == BoolInt(has_dd) * 10 * WrapU8(d2)
        t3     == WrapU8(d3)
    IN  [sign |-> sign, mul |-> mul, d1 |-> d1, d2 |-> d2, d3 |-> d3,
         t1 |-> t1, t2 |-> t2, t3 |-> t3,
         acc |-> WrapI16(WrapI16(WrapI16(t1) + WrapI16(t2)) + t3)]

parse_temp(t) ==
    LET s == ParseTempSteps(t) IN WrapI16(s.sign * s.acc)

----------------------------------------------------------------------------
(* The delimiter scan and extract_fields                                   *)

CHUNK_SIZE == 64

\* data.as_chunks() followed by the remainder: the number of masks the
\* iterator yields.
NumMasks(d) == (Len(d) \div CHUNK_SIZE) + 1

\* The bitmask of window w (0-based) of d, as the set of its set bits.  The
\* last window is zero-padded by load_or_default; a zero byte is no delimiter.
WindowMask(d, w) ==
    { i \in 0..(CHUNK_SIZE - 1) :
        /\ w * CHUNK_SIZE + i < Len(d)
        /\ d[w * CHUNK_SIZE + i + 1] \in {NL, SEMI} }

\* combined.trailing_zeros()
TrailingZeros(m) == CHOOSE i \in m : \A j \in m : i <= j

\* The field buffer and the fill threshold of the two variants of parse.
BufCap(md)  == IF md = "parse_lib" THEN 128 ELSE 64

\* A faulty threshold: the buffer is filled until it is full.
FillBadThreshold(md) == BufCap(md)

FillThreshold(md) == IF md = "parse_lib" THEN 64 + 32 ELSE 32

\* extract_fields: one field per set bit, in ascending bit order.  st is
\* the record [prev, buf, count, ub]; a write past the buffer is undefined
\* behaviour and is recorded in ub.
RECURSIVE extract_fields(_, _, _, _)
extract_fields(md, st, pos, combined) ==
    IF combined = {} THEN st
    ELSE LET i       == TrailingZeros(combined)
             current == pos + i
             st2     == IF st.count < BufCap(md)
                        THEN [st EXCEPT !.buf[st.count + 1] = <<st.prev, current>>,
                                        !.prev = current + 1,
                                        !.count = st.count + 1]
                        ELSE [st EXCEPT !.ub = TRUE,
                                        !.prev = current + 1,
                                        !.count = st.count + 1]
         IN  extract_fields(md, st2, pos, combined \ {i})

----------------------------------------------------------------------------
(* The aggregation table                                                   *)

EmptyMap == [k \in {} |-> 0]

Weather(total, min, max, sum) ==
    [total |-> total, min |-> min, max |-> max, sum |-> sum]

\* A faulty update: the sum of a station already present is left as it was.
ObserveDropSum(map, station, m) ==
    IF station \in DOMAIN map
    THEN [map EXCEPT ![station] =
            Weather(@.total + 1, Min2(@.min, m), Max2(@.max, m), @.sum)]
    ELSE (station :> Weather(1, m, m, m)) @@ map

\* map.entry(station).and_modify(..).or_insert(..)
Observe(map, station, m) ==
    IF station \in DOMAIN map
    THEN [map EXCEPT ![station] =
            Weather(@.total + 1, Min2(@.min, m), Max2(@.max, m), @.sum + m)]
    ELSE (station :> Weather(1, m, m, m)) @@ map

----------------------------------------------------------------------------
(* parse: the state of one call and its steps                              *)

\* The state of a call of parse that has not begun.
IdleParse ==
    [pc |-> "idle", prev |-> 0, pos |-> 0, next |-> 0, buf |-> <<>>,
     count |-> 0, ub |-> FALSE, map |-> EmptyMap, handed |-> <<>>]

\* The state of parse at the head of 'outer.  next counts the masks taken
\* from the iterator; handed logs the (station, measurement) pairs bound in
\* the empty-buffer loop with the value parse_temp returned.
NewParse(md) ==
    [pc |-> "fill", prev |-> 0, pos |-> 0, next |-> 0,
     buf |-> [i \in 1..BufCap(md) |-> <<0, 0>>],
     count |-> 0, ub |-> FALSE, map |-> EmptyMap, handed |-> <<>>]

\* 'inner with iter.next() = Some(mask): extract_fields, pos += CHUNK_SIZE.
ScanStep(md, d, st) ==
    LET e == extract_fields(md,
                [prev |-> st.prev, buf |-> st.buf, count |-> st.count, ub |-> st.ub],
                st.pos, WindowMask(d, st.next))
    IN  [st EXCEPT !.prev = e.prev, !.buf = e.buf, !.count = e.count,
                   !.ub = e.ub, !.pos = st.pos + CHUNK_SIZE,
                   !.next = st.next + 1,
                   !.pc = IF e.ub THEN "ub" ELSE "fill"]

\* The empty-buffer loop: pairs 0 .. count/2 - 1, in order.
RECURSIVE EmptyBuffer(_, _, _, _)
EmptyBuffer(d, st, i, n) ==
    IF i >= n THEN st
    ELSE LET station     == Bytes(d, st.buf[2 * i + 1])
             measurement == parse_temp(Bytes(d, st.buf[2 * i + 2]))
         IN  EmptyBuffer(d,
                [st EXCEPT !.map = Observe(st.map, station, measurement),
                           !.handed = Append(st.handed,
                               [station |-> st.buf[2 * i + 1],
                                temp |-> st.buf[2 * i + 2],
                                value |-> measurement])],
                i + 1, n)

\* A faulty carry: an odd trailing field is forgotten.
CarryDropOdd(md, st) ==
    [st EXCEPT !.count = 0, !.pc = "fill"]

\* "handle possible remainder": buf[0] = buf[count - is_odd]; count = is_odd.
\* The index is checked: past the buffer it panics.
Carry(md, st) ==
    LET is_odd == st.count % 2
    IN  IF st.count - is_odd < BufCap(md)
        THEN [st EXCEPT !.buf[1] = st.buf[st.count - is_odd + 1],
                        !.count = is_odd, !.pc = "fill"]
        ELSE [st EXCEPT !.pc = "panic"]

FlushStep(md, d, st) == Carry(md, EmptyBuffer(d, st, 0, st.count \div 2))

\* The three exits of the test at the head of 'inner.
CanScan(md, d, st) ==
    /\ st.pc = "fill"
    /\ st.count < FillThreshold(md)
    /\ st.next < NumMasks(d)

MustBreak(md, d, st) ==
    /\ st.pc = "fill"
    /\ \/ st.count >= FillThreshold(md)
       \/ /\ st.next = NumMasks(d)
          /\ st.count # 0

CanFinish(md, d, st) ==
    /\ st.pc = "fill"
    /\ st.count < FillThreshold(md)
    /\ st.next = NumMasks(d)
    /\ st.count = 0

\* parse run to its return: the map it returns.
RECURSIVE RunParse(_, _, _)
RunParse(md, d, st) ==
    IF CanScan(md, d, st) THEN RunParse(md, d, ScanStep(md, d, st))
    ELSE IF MustBreak(md, d, st)
         THEN RunParse(md, d, FlushStep(md, d, [st EXCEPT !.pc = "empty"]))
    ELSE st.map

\* get_map: parse(bytes) collected.
get_map(d) == RunParse("get_map", d, NewParse("get_map"))

----------------------------------------------------------------------------
(* get_map_rayon: the partitioning loop and the reduction                  *)

\* A faulty search: the byte at hi is searched too.
MemrchrInclusive(d, lo, hi) ==
    LET hits == { j \in lo..Min2(hi, Len(d) - 1) : d[j + 1] = NL }
    IN  IF hits = {} THEN -1
        ELSE CHOOSE j \in hits : \A k \in hits : k <= j

\* libc::memrchr for '\n' over d[lo..hi): the offset in d of the last '\n'
\* of the range, or -1 for the null pointer.
Memrchr(d, lo, hi) ==
    LET hits == { j \in lo..(hi - 1) : d[j + 1] = NL }
    IN  IF hits = {} THEN -1
        ELSE CHOOSE j \in hits : \A k \in hits : k <= j

\* A faulty closure: the maximum of acc is kept.
MergeEntryKeepMax(acc, station, measurement) ==
    IF station \in DOMAIN acc
    THEN [acc EXCEPT ![station] =
            Weather(@.total + measurement.total,
                    Min2(@.min, measurement.min),
                    @.max,
                    @.sum + measurement.sum)]
    ELSE (station :> measurement) @@ acc

\* The closure of reduce_with applied to one (station, measurement) of other.
MergeEntry(acc, station, measurement) ==
    IF station \in DOMAIN acc
    THEN [acc EXCEPT ![station] =
            Weather(@.total + measurement.total,
                    Min2(@.min, measurement.min),
                    Max2(@.max, measurement.max),
                    @.sum + measurement.sum)]
    ELSE (station :> measurement) @@ acc

\* for (station, measurement) in other { .. }: the entries of other one by
\* one, keys being the stations not yet visited.
RECURSIVE MergeLoop(_, _, _)
MergeLoop(acc, other, keys) ==
    IF keys = {} THEN acc
    ELSE LET station == CHOOSE k \in keys : TRUE
         IN  MergeLoop(MergeEntry(acc, station, other[station]), other,
                       keys \ {station})

Merge(acc, other) == MergeLoop(acc, other, DOMAIN other)

----------------------------------------------------------------------------
(* main: the sorted emission                                               *)

\* Ord of byte slices: lexicographic, a proper prefix first.
RECURSIVE LexLess(_, _)
LexLess(a, b) ==
    IF b = <<>> THEN FALSE
    ELSE IF a = <<>> THEN TRUE
    ELSE IF a[1] # b[1] THEN a[1] < b[1]
    ELSE LexLess(Tail(a), Tail(b))

\* BTreeMap iteration: the keys in ascending order.
RECURSIVE SortedKeys(_)
SortedKeys(keys) ==
    IF keys = {} THEN <<>>
    ELSE LET k == CHOOSE x \in keys : \A y \in keys \ {x} : LexLess(x, y)
         IN  <<k>> \o SortedKeys(keys \ {k})

\* One write to stdout: write_all(bytes), or the write! of the three
\* numbers, kept as the arguments min, sum, total, max it formats.
WriteAll(b) == [fmt |-> FALSE, bytes |-> b, args |-> <<>>]
WriteStats(w) == [fmt |-> TRUE, bytes |-> <<>>, args |-> <<w.min, w.sum, w.total, w.max>>]

OPEN  == <<123>>
CLOSE == <<125, 10>>
SEP   == <<44, 32>>

\* A faulty loop body: the separator follows every entry.
EntryWritesTrailingSep(id, stats, rest) ==
    <<WriteAll(id), WriteStats(stats), WriteAll(SEP)>>

\* The body of main's while loop for the entry id, rest being what the
\* iterator still holds after it.
EntryWrites(id, stats, rest) ==
    <<WriteAll(id), WriteStats(stats)>>
        \o (IF rest # <<>> THEN <<WriteAll(SEP)>> ELSE <<>>)

----------------------------------------------------------------------------
(* The inputs                                                              *)

Station_a       == <<97>>
Station_Oslo    == <<79, 115, 108, 111>>
Station_Hamburg == <<72, 97, 109, 98, 117, 114, 103>>

Temp_12_0 == <<49, 50, 46, 48>>
Temp_8_5  == <<56, 46, 53>>
Temp_m2_3 == <<45, 50, 46, 51>>

BulkTemps == {Temp_8_5, Temp_m2_3}

\* Every span of the grammar -?D{1,2}.D
AllTemps ==
    { sg \o ip \o <<46, f>> :
        sg \in {<<>>, <<MINUS>>},
        ip \in { <<x>> : x \in Digits } \cup { <<x, y>> : x \in Digits, y \in Digits },
        f  \in Digits }

Rec(s, t) == s \o <<SEMI>> \o t \o <<NL>>

Templates == { Rec(s, t) : s \in {Station_a, Station_Hamburg}, t \in BulkTemps }

\* "Hamburg;12.0\nHamburg;8.5\nOslo;-2.3\n"
Example ==
    << Rec(Station_Hamburg, Temp_12_0), Rec(Station_Hamburg, Temp_8_5),
       Rec(Station_Oslo, Temp_m2_3) >>

\* One record of each station, out of byte order.
ThreeStations ==
    << Rec(Station_Oslo, Temp_m2_3), Rec(Station_a, Temp_12_0),
       Rec(Station_Hamburg, Temp_8_5) >>

\* The record patterns an input repeats.
Blocks ==
    { <<r>> : r \in Templates }
        \cup { <<r1, r2>> : r1 \in Templates, r2 \in Templates }
        \cup { Example, ThreeStations }

\* The first n records of the pattern b repeated.
RECURSIVE Cyc(_, _)
Cyc(b, n) ==
    IF n = 0 THEN <<>> ELSE Cyc(b, n - 1) \o b[((n - 1) % Len(b)) + 1]

\* d without its last byte: the final record left unterminated.
Chop(d) == IF d = <<>> THEN d ELSE SubSeq(d, 1, Len(d) - 1)

BulkInputs(m) ==
    LET full == { Cyc(b, n) : b \in Blocks, n \in 0..m }
    IN  full \cup { Chop(d) : d \in full }

\* Long records first, then the shortest records the format allows: a
\* buffer filled slowly and then as fast as a window can fill it.
TwoPhaseInputs(m) ==
    { Cyc(<<Rec(Station_Hamburg, Temp_m2_3)>>, p) \o Cyc(<<Rec(Station_a, Temp_8_5)>>, q) :
        p \in 0..m, q \in 0..Min2(m, CHUNK_SIZE \div 6 + 2) }

TempInputs == { Rec(Station_a, t) : t \in AllTemps }

----------------------------------------------------------------------------
(* The state machine                                                       *)

Modes == {"get_map", "get_map_rayon", "parse_lib"}

\* One call of parse on the whole buffer: get_map, or the library's parse.
InitSingle(md, d) ==
    /\ mode = md
    /\ data = d
    /\ nthreads = 1
    /\ pc = "parallel"
    /\ pi = 0
    /\ start = 0
    /\ blocks = << <<0, Len(d)>> >>
    /\ ps = << NewParse(md) >>
    /\ parts = << [lo |-> 0, hi |-> 0, ready |-> FALSE, map |-> EmptyMap] >>
    /\ table = EmptyMap
    /\ iter = <<>>
    /\ out = <<>>

\* get_map_rayon with n worker threads, before the partitioning loop.
InitRayon(n, d) ==
    /\ mode = "get_map_rayon"
    /\ data = d
    /\ nthreads = n
    /\ pc = "partition"
    /\ pi = 0
    /\ start = 0
    /\ blocks = [i \in 1..n |-> <<0, 0>>]
    /\ ps = [i \in 1..n |-> IdleParse]
    /\ parts = <<>>
    /\ table = EmptyMap
    /\ iter = <<>>
    /\ out = <<>>

InitWith(single, par, temps) ==
    \/ \E md \in {"get_map", "parse_lib"} :
         \E d \in BulkInputs(single) \cup TwoPhaseInputs(single) : InitSingle(md, d)
    \/ \E d \in temps : InitSingle("get_map", d)
    \/ \E n \in 1..MaxWorkers : \E d \in BulkInputs(par) : InitRayon(n, d)

Init == InitWith(MaxRecs, MaxParRecs, TempInputs)

\* The bytes worker i parses.
BlockOf(i) == Bytes(data, blocks[i + 1])

\* One iteration of the partitioning loop.
PartitionStep ==
    /\ pc = "partition"
    /\ pi < nthreads - 1
    /\ LET block_size == Len(data) \div nthreads
           approx_end == (pi + 1) * block_size
           n          == Memrchr(data, start, approx_end)
       IN  IF n = -1
           THEN /\ pc' = "panic"
                /\ UNCHANGED <<pi, start, blocks>>
           ELSE LET end == start + (n - start + 1)
                IN  /\ blocks' = [blocks EXCEPT ![pi + 1] = <<start, end>>]
                    /\ start' = end
                    /\ pi' = pi + 1
                    /\ pc' = pc
    /\ UNCHANGED <<mode, data, nthreads, ps, parts, table, iter, out>>

\* blocks[num_threads - 1] = &bytes[start..], and the blocks go to the pool.
PartitionLast ==
    /\ pc = "partition"
    /\ pi = nthreads - 1
    /\ blocks' = [blocks EXCEPT ![nthreads] = <<start, Len(data)>>]
    /\ ps' = [i \in 1..nthreads |-> NewParse(mode)]
    /\ parts' = [i \in 1..nthreads |->
                    [lo |-> i - 1, hi |-> i - 1, ready |-> FALSE, map |-> EmptyMap]]
    /\ pc' = "parallel"
    /\ UNCHANGED <<mode, data, nthreads, pi, start, table, iter, out>>

\* Worker i takes the next mask.
Scan(i) ==
    /\ pc = "parallel"
    /\ CanScan(mode, BlockOf(i), ps[i + 1])
    /\ ps' = [ps EXCEPT ![i + 1] = ScanStep(mode, BlockOf(i), @)]
    /\ UNCHANGED <<mode, data, nthreads, pc, pi, start, blocks, parts, table, iter, out>>

\* Worker i leaves 'inner: the buffer is full, or the iterator is exhausted
\* with fields left.
BreakInner(i) ==
    /\ pc = "parallel"
    /\ MustBreak(mode, BlockOf(i), ps[i + 1])
    /\ ps' = [ps EXCEPT ![i + 1].pc = "empty"]
    /\ UNCHANGED <<mode, data, nthreads, pc, pi, start, blocks, parts, table, iter, out>>

\* Worker i empties the buffer and carries the remainder.
Flush(i) ==
    /\ pc = "parallel"
    /\ ps[i + 1].pc = "empty"
    /\ ps' = [ps EXCEPT ![i + 1] = FlushStep(mode, BlockOf(i), @)]
    /\ UNCHANGED <<mode, data, nthreads, pc, pi, start, blocks, parts, table, iter, out>>

\* Worker i leaves 'outer and returns its map to the reduction.
Finish(i) ==
    /\ pc = "parallel"
    /\ CanFinish(mode, BlockOf(i), ps[i + 1])
    /\ ps' = [ps EXCEPT ![i + 1].pc = "done"]
    /\ parts' = [k \in 1..Len(parts) |->
                    IF parts[k].lo = i
                    THEN [parts[k] EXCEPT !.ready = TRUE, !.map = ps[i + 1].map]
                    ELSE parts[k]]
    /\ UNCHANGED <<mode, data, nthreads, pc, pi, start, blocks, table, iter, out>>

\* reduce_with joins two adjacent finished groups: acc is the left one.
Reduce(k) ==
    /\ pc = "parallel"
    /\ k + 1 <= Len(parts)
    /\ parts[k].ready
    /\ parts[k + 1].ready
    /\ parts' = SubSeq(parts, 1, k - 1)
                  \o << [lo |-> parts[k].lo, hi |-> parts[k + 1].hi, ready |-> TRUE,
                         map |-> Merge(parts[k].map, parts[k + 1].map)] >>
                  \o SubSeq(parts, k + 2, Len(parts))
    /\ UNCHANGED <<mode, data, nthreads, pc, pi, start, blocks, ps, table, iter, out>>

\* .collect::<BTreeMap<_, _>>() and main's into_iter().peekable()
Collect ==
    /\ pc = "parallel"
    /\ mode # "parse_lib"
    /\ Len(parts) = 1
    /\ parts[1].ready
    /\ table' = parts[1].map
    /\ iter' = SortedKeys(DOMAIN parts[1].map)
    /\ pc' = "open"
    /\ UNCHANGED <<mode, data, nthreads, pi, start, blocks, ps, parts, out>>

\* The library's parse returns its map to its caller.
Return ==
    /\ pc = "parallel"
    /\ mode = "parse_lib"
    /\ parts[1].ready
    /\ table' = parts[1].map
    /\ pc' = "returned"
    /\ UNCHANGED <<mode, data, nthreads, pi, start, blocks, ps, parts, iter, out>>

\* stdout.write_all(b"{")
EmitOpen ==
    /\ pc = "open"
    /\ out' = Append(out, WriteAll(OPEN))
    /\ pc' = "entries"
    /\ UNCHANGED <<mode, data, nthreads, pi, start, blocks, ps, parts, table, iter>>

\* One iteration of while let Some((id, stats)) = map.next()
EmitEntry ==
    /\ pc = "entries"
    /\ iter # <<>>
    /\ out' = out \o EntryWrites(Head(iter), table[Head(iter)], Tail(iter))
    /\ iter' = Tail(iter)
    /\ UNCHANGED <<mode, data, nthreads, pc, pi, start, blocks, ps, parts, table>>

\* stdout.write_all(b"}\n")
EmitClose ==
    /\ pc = "entries"
    /\ iter = <<>>
    /\ out' = Append(out, WriteAll(CLOSE))
    /\ pc' = "done"
    /\ UNCHANGED <<mode, data, nthreads, pi, start, blocks, ps, parts, table, iter>>

Worker(i) ==
    /\ i < nthreads
    /\ (Scan(i) \/ BreakInner(i) \/ Flush(i) \/ Finish(i))

Next ==
    \/ PartitionStep
    \/ PartitionLast
    \/ \E i \in 0..(nthreads - 1) : Worker(i)
    \/ \E k \in 1..(nthreads - 1) : Reduce(k)
    \/ Collect
    \/ Return
    \/ EmitOpen
    \/ EmitEntry
    \/ EmitClose

Spec == Init /\ [][Next]_vars

----------------------------------------------------------------------------
(* What the input says, read off the bytes without the parser              *)

\* The offsets (1-based) of the delimiter bytes of d, ascending.
DelimSeq(d) ==
    SelectSeq([j \in 1..Len(d) |-> j], LAMBDA j : d[j] \in {NL, SEMI})

\* The global field sequence of d: field k runs from just after delimiter
\* k - 1 up to delimiter k.
FieldSeq(d) ==
    LET del == DelimSeq(d)
    IN  [k \in 1..Len(del) |-> <<IF k = 1 THEN 0 ELSE del[k - 1], del[k] - 1>>]

\* t matches -?D{1,2}.D
IsTemp(t) ==
    /\ Len(t) \in 3..5
    /\ LET body == IF t[1] = MINUS THEN Tail(t) ELSE t
       IN  /\ Len(body) \in {3, 4}
           /\ body[Len(body) - 1] = 46
           /\ body[Len(body)] \in Digits
           /\ \A j \in 1..(Len(body) - 2) : body[j] \in Digits

\* The decimal number a digit string writes.
RECURSIVE DecVal(_)
DecVal(ds) ==
    IF ds = <<>> THEN 0
    ELSE 10 * DecVal(SubSeq(ds, 1, Len(ds) - 1)) + (ds[Len(ds)] - ZERO)

\* Ten times the decimal value of the temperature t.
TenTimes(t) ==
    LET neg  == t[1] = MINUS
        body == IF neg THEN Tail(t) ELSE t
        v    == 10 * DecVal(SubSeq(body, 1, Len(body) - 2)) + (body[Len(body)] - ZERO)
    IN  IF neg THEN 0 - v ELSE v

\* d is a sequence of records STATION;TEMPERATURE\n
WellFormed(d) ==
    LET del == DelimSeq(d)
        fs  == FieldSeq(d)
    IN  /\ Len(del) % 2 = 0
        /\ d # <<>> => d[Len(d)] = NL
        /\ \A k \in 1..Len(del) :
              /\ d[del[k]] = (IF k % 2 = 1 THEN SEMI ELSE NL)
              /\ k % 2 = 1 => fs[k][1] < fs[k][2]
              /\ k % 2 = 0 => IsTemp(Bytes(d, fs[k]))

NumRecords(d) == Len(DelimSeq(d)) \div 2

\* The records of a well-formed d: station bytes and value.
RecordSeq(d) ==
    LET fs == FieldSeq(d)
    IN  [k \in 1..(Len(fs) \div 2) |->
            [station |-> Bytes(d, fs[2 * k - 1]),
             value   |-> TenTimes(Bytes(d, fs[2 * k]))]]

RECURSIVE SumOf(_, _)
SumOf(rs, ks) ==
    IF ks = {} THEN 0
    ELSE LET k == CHOOSE x \in ks : TRUE IN rs[k].value + SumOf(rs, ks \ {k})

\* The statistics the records of d define.
RefTable(d) ==
    LET rs == RecordSeq(d)
        of(s) == { k \in 1..Len(rs) : rs[k].station = s }
    IN  [s \in { rs[k].station : k \in 1..Len(rs) } |->
            [total |-> Cardinality(of(s)),
             min   |-> CHOOSE v \in { rs[k].value : k \in of(s) } :
                          \A k \in of(s) : v <= rs[k].value,
             max   |-> CHOOSE v \in { rs[k].value : k \in of(s) } :
                          \A k \in of(s) : v >= rs[k].value,
             sum   |-> SumOf(rs, of(s))]]

Workers == 0..(nthreads - 1)

\* Worker i's call of parse has begun.
Running(i) == ps[i + 1].pc # "idle"

----------------------------------------------------------------------------
(* C1 *)

\* C1: for every well-formed buffer, of any length, the table parse returns
\* has exactly the distinct station names of the buffer as its keys and, for
\* every key, total = the number of its records, sum = the exact sum of
\* their values, min and max = the smallest and largest of them.
C1_ParseAggregates ==
    \A i \in Workers :
        (ps[i + 1].pc = "done" /\ WellFormed(BlockOf(i)))
            => ps[i + 1].map = RefTable(BlockOf(i))

\* A returned table of a buffer of more than two windows and more fields
\* than the buffer holds, with two stations, one of them with min < max.
C1_Witness ==
    /\ mode = "get_map"
    /\ ps[1].pc = "done"
    /\ WellFormed(data)
    /\ Len(data) > 2 * CHUNK_SIZE
    /\ 2 * Len(ps[1].handed) > BufCap(mode)
    /\ Cardinality(DOMAIN ps[1].map) >= 2
    /\ \E s \in DOMAIN ps[1].map : ps[1].map[s].min < ps[1].map[s].max

----------------------------------------------------------------------------
(* C6 *)

\* No intermediate value of parse_temp leaves its type: the three digit
\* subtractions stay in u8, mul, t1, t2, t3, the two sums and the signed
\* result stay in i16.
InU8(x)  == x \in 0..255
InI16(x) == x >= -32768 /\ x <= 32767

StepsInRange(t) ==
    LET s == ParseTempSteps(t)
    IN  /\ InU8(s.d1) /\ InU8(s.d2) /\ InU8(s.d3)
        /\ InI16(s.mul) /\ InI16(s.t1) /\ InI16(s.t2) /\ InI16(s.t3)
        /\ InI16(s.t1 + s.t2) /\ InI16(s.t1 + s.t2 + s.t3)
        /\ InI16(s.sign * (s.t1 + s.t2 + s.t3))

\* C6: for every span t of the grammar -?D{1,2}.D that parse hands to
\* parse_temp, the value returned is ten times the decimal value of t, and
\* every intermediate value stays inside the u8 and i16 ranges.
C6_ParseTemp ==
    \A i \in Workers :
        \A k \in 1..Len(ps[i + 1].handed) :
            LET t == Bytes(BlockOf(i), ps[i + 1].handed[k].temp)
            IN  IsTemp(t) =>
                    /\ ps[i + 1].handed[k].value = TenTimes(t)
                    /\ StepsInRange(t)

\* "-99.9" has been parsed to -999: the sign, the two-digit branch and the
\* largest magnitude of the grammar.
C6_Witness ==
    /\ Len(ps[1].handed) = 1
    /\ Bytes(data, ps[1].handed[1].temp) = <<45, 57, 57, 46, 57>>
    /\ ps[1].handed[1].value = -999

----------------------------------------------------------------------------
(* C9 *)

\* C9: in every call of parse, after any sequence of window scans and
\* flushes, the k-th pair handed to the aggregation update is fields 2k and
\* 2k+1 (0-based) of the global field sequence, the field buffer holds, in
\* order and from slot 0, exactly the fields that follow the pairs handed so
\* far, and handed pairs plus buffered fields are all the fields whose
\* delimiter lies in the windows scanned: no field is dropped, duplicated,
\* reordered or handed unpaired.
C9_FieldPairing ==
    \A i \in Workers :
        Running(i) =>
            LET st == ps[i + 1]
                fs == FieldSeq(BlockOf(i))
                h  == Len(st.handed)
            IN  /\ 2 * h + st.count <= Len(fs)
                /\ \A k \in 1..h :
                      /\ st.handed[k].station = fs[2 * k - 1]
                      /\ st.handed[k].temp = fs[2 * k]
                /\ \A j \in 1..st.count : st.buf[j] = fs[2 * h + j]
                /\ 2 * h + st.count =
                      Cardinality({ k \in 1..Len(fs) : fs[k][2] < st.pos })
                /\ st.pc = "done" => 2 * h = Len(fs)

\* After a flush that found an odd number of fields, the carried field is
\* in slot 0 and was paired with the first field of the next window: a pair
\* has been handed whose station ends in one window and whose temperature
\* ends in a later one.
C9_Witness ==
    \E k \in 1..Len(ps[1].handed) :
        /\ k > FillThreshold(mode) \div 2
        /\ ps[1].handed[k].station[2] \div CHUNK_SIZE
              < ps[1].handed[k].temp[2] \div CHUNK_SIZE
        /\ ps[1].buf[1] = ps[1].handed[k].station

----------------------------------------------------------------------------
(* C10 *)

\* C10: for every input of records of at least 6 bytes, no write of
\* extract_fields lands outside the field buffer (count never passes the
\* capacity: 64 slots filled while count < 32 in main.rs, 128 slots filled
\* while count < 96 in parse.rs), and the slot count - is_odd read when the
\* remainder is carried is inside the buffer.
C10_BufferBounds ==
    \A i \in Workers :
        Running(i) =>
            /\ ~ps[i + 1].ub
            /\ ps[i + 1].pc \notin {"ub", "panic"}
            /\ ps[i + 1].count <= BufCap(mode)
            /\ ps[i + 1].pc = "empty" =>
                  ps[i + 1].count - (ps[i + 1].count % 2) < BufCap(mode)

\* A window scanned from just below the fill threshold of the library's
\* parse has filled the buffer well past the threshold.
C10_Witness ==
    /\ mode = "parse_lib"
    /\ ps[1].pc = "fill"
    /\ ps[1].count >= FillThreshold(mode) + 14

----------------------------------------------------------------------------
(* C2, C3 *)

\* The partitioning loop has run to its end.
Partitioned == pc \notin {"partition", "panic"}

\* The blocks are contiguous from offset 0, cover the buffer, and each of
\* the first N-1 ends just after a '\n'.
BlocksAligned ==
    /\ blocks[1][1] = 0
    /\ blocks[nthreads][2] = Len(data)
    /\ \A i \in 1..nthreads : blocks[i][1] <= blocks[i][2]
    /\ \A i \in 1..(nthreads - 1) :
          /\ blocks[i][2] = blocks[i + 1][1]
          /\ blocks[i][1] < blocks[i][2]
          /\ data[blocks[i][2]] = NL

\* C2: for every well-formed input and every worker count N from 1 up to
\* the number of records, get_map_rayon with N workers completes and yields
\* the table get_map yields.
C2_RayonEqualsSingle ==
    (mode = "get_map_rayon" /\ WellFormed(data) /\ nthreads <= NumRecords(data))
        => /\ pc # "panic"
           /\ pc \in {"open", "entries", "done"} => table = get_map(data)

\* C3: for every N >= 1 and every valid input of at least N records, the
\* partitioning loop produces N blocks that are disjoint, contiguous, cover
\* [0, L) and, but for the last, end in '\n'.
C3_PartitionInvariant ==
    (mode = "get_map_rayon" /\ WellFormed(data) /\ nthreads <= NumRecords(data))
        => /\ pc # "panic"
           /\ Partitioned => BlocksAligned

----------------------------------------------------------------------------
(* C4 *)

\* C4: for every finite input, its final record terminated or not, the run
\* eventually returns its table or fails; it never loops forever.  parse is
\* deterministic, so a call that terminates never stands at the head of
\* 'outer, about to leave 'inner, in a state that the empty-buffer and
\* carry steps give back unchanged.
C4_NeverLoops ==
    \A i \in Workers :
        Running(i) =>
            ~ /\ MustBreak(mode, BlockOf(i), ps[i + 1])
              /\ FlushStep(mode, BlockOf(i), [ps[i + 1] EXCEPT !.pc = "empty"])
                    = ps[i + 1]

----------------------------------------------------------------------------
(* C5 *)

\* The tables the reduction may be asked to join: those the workers have
\* returned and those it has built.
Tables ==
    { ps[i + 1].map : i \in { j \in Workers : ps[j + 1].pc = "done" } }
        \cup { parts[k].map : k \in { j \in 1..Len(parts) : parts[j].ready } }

\* C5: the merge of the reduction is commutative and associative on the
\* tables of the partitions, every group the reduction has built, in
\* whatever order the workers finished and the groups were joined, holds
\* the statistics of one sequential pass over the bytes of its blocks, and
\* so does the merged table.
C5_MergeOrderIndependent ==
    /\ \A a \in Tables : \A b \in Tables : Merge(a, b) = Merge(b, a)
    /\ \A a \in Tables : \A b \in Tables : \A c \in Tables :
          Merge(Merge(a, b), c) = Merge(a, Merge(b, c))
    /\ (mode = "get_map_rayon" /\ WellFormed(data) /\ Partitioned) =>
          /\ \A k \in 1..Len(parts) :
                parts[k].ready =>
                    parts[k].map =
                        RefTable(Bytes(data, <<blocks[parts[k].lo + 1][1],
                                               blocks[parts[k].hi + 1][2]>>))
          /\ pc \in {"open", "entries", "done"} => table = RefTable(data)

\* Three workers' tables have been joined into one, a station of which was
\* seen by more than one worker with different extremes.
C5_Witness ==
    /\ mode = "get_map_rayon"
    /\ nthreads = 3
    /\ pc = "parallel"
    /\ Len(parts) = 1
    /\ parts[1].ready
    /\ \E s \in DOMAIN parts[1].map :
          /\ parts[1].map[s].min < parts[1].map[s].max
          /\ Cardinality({ i \in Workers : s \in DOMAIN ps[i + 1].map }) >= 2
          /\ \E i \in Workers :
                /\ s \in DOMAIN ps[i + 1].map
                /\ ps[i + 1].map[s].max < parts[1].map[s].max

----------------------------------------------------------------------------
(* C7 *)

\* The stations written, in the order written.
EmittedIds == [j \in 1..((Len(out) - 1) \div 3) |-> out[3 * j - 1].bytes]

\* C7: the output of a finished run is "{", then one entry
\* STATION=MIN/MEAN/MAX for each station of the table and no other, in
\* strictly ascending byte order of the names, ", " between two consecutive
\* entries and neither before the first nor after the last, then "}\n"; an
\* empty table gives "{" "}\n".
C7_OutputFormat ==
    pc = "done" =>
        LET n == Cardinality(DOMAIN table)
        IN  /\ Len(out) = IF n = 0 THEN 2 ELSE 3 * n + 1
            /\ out[1] = WriteAll(OPEN)
            /\ out[Len(out)] = WriteAll(CLOSE)
            /\ \A j \in 1..n :
                  /\ ~out[3 * j - 1].fmt
                  /\ out[3 * j - 1].bytes \in DOMAIN table
                  /\ out[3 * j] = WriteStats(table[out[3 * j - 1].bytes])
                  /\ j < n => out[3 * j + 1] = WriteAll(SEP)
                  /\ j < n => LexLess(out[3 * j - 1].bytes, out[3 * j + 2].bytes)
            /\ { out[3 * j - 1].bytes : j \in 1..n } = DOMAIN table

\* A finished output of three entries: Hamburg, Oslo, a.
C7_Witness ==
    /\ pc = "done"
    /\ Len(out) = 10
    /\ EmittedIds = <<Station_Hamburg, Station_Oslo, Station_a>>

----------------------------------------------------------------------------
(* C8 *)

\* d[lo..hi) holds a '\n'.
HasNewline(d, lo, hi) == \E j \in lo..(hi - 1) : d[j + 1] = NL

\* The end of the search range of iteration i of the partitioning loop.
ApproxEnd(i) == (i + 1) * (Len(data) \div nthreads)

\* C8: get_map_rayon fails when, and only when, the search range of some
\* iteration i < N-1 holds no '\n' (floor(L/N) = 0 included); it fails in
\* that iteration, before any block is handed to a worker, with no table
\* returned and no byte written; and no run goes past an iteration whose
\* range holds no '\n'.
C8_PartitionFailure ==
    /\ pc = "panic" =>
          /\ mode = "get_map_rayon"
          /\ pi < nthreads - 1
          /\ ~HasNewline(data, start, ApproxEnd(pi))
          /\ \A i \in Workers : ps[i + 1] = IdleParse
          /\ parts = <<>>
          /\ table = EmptyMap
          /\ out = <<>>
    /\ (mode = "get_map_rayon" /\ pc # "panic") =>
          \A i \in 0..(pi - 1) : HasNewline(data, blocks[i + 1][1], ApproxEnd(i))

\* The second split of a three-way partition failed after the first one
\* succeeded, on a well-formed input.
C8_Witness ==
    /\ pc = "panic"
    /\ nthreads = 3
    /\ pi = 1
    /\ WellFormed(data)

====
